---- MODULE Spec2Model ----
(***************************************************************************)
(* Model of ann-music-scale: the scale-type dictionary (dictionary.ts),    *)
(* Scale instantiation with enharmonic spelling (properties.ts) and the    *)
(* derived queries extended / reduced / toSteps (methods.ts); and, of the  *)
(* earlier single-module revision (index.ts), the four-key dictionary,     *)
(* Scale and modes.                                                        *)
(*                                                                         *)
(* Representation of strings.  A string is the list of tokens obtained by  *)
(* splitting it at single spaces (an empty token stands for an extra       *)
(* space); a token is a list of glyphs.  The glyphs of a note token are    *)
(* its characters ("F","#","4"); a word of a scale-type name is one        *)
(* opaque glyph ("pentatonic").                                            *)
(***************************************************************************)
EXTENDS Integers, Sequences, FiniteSets, TLC

VARIABLES SCALE_TYPES, SCALES, last, prev, calls, spell, Dictionary, mode

vars == <<SCALE_TYPES, SCALES, last, prev, calls, spell, Dictionary, mode>>

\* Longest call history explored.
MaxCalls == 3

(***************************************************************************)
(* Generic sequence helpers.                                               *)
(***************************************************************************)
Range(s) == {s[i] : i \in DOMAIN s}

RECURSIVE Repeat(_, _)
Repeat(g, n) == IF n <= 0 THEN <<>> ELSE <<g>> \o Repeat(g, n - 1)

Abs(x) == IF x < 0 THEN -x ELSE x

(***************************************************************************)
(* ann-music-base: BaseArray.rotate(times, arr).                           *)
(*   n = ((times % len) + len) % len; arr.slice(n).concat(arr.slice(0,n))  *)
(* The two-step JavaScript remainder is the mathematical modulo, which is  *)
(* what % is here.                                                         *)
(***************************************************************************)
rotate(times, arr) ==
    LET len == Len(arr)
        n   == times % len
    IN  SubSeq(arr, n + 1, len) \o SubSeq(arr, 1, n)

(***************************************************************************)
(* ann-music-note: the Note service.                                       *)
(***************************************************************************)
NATURAL == <<"C", "D", "E", "F", "G", "A", "B">>

SEMI == <<0, 2, 4, 5, 7, 9, 11>>

OctaveDigits == <<"0", "1", "2", "3", "4", "5", "6", "7", "8", "9">>

DefaultOctave == 4

\* NOTE.Letter.toStep: C -> 0 ... B -> 6
LetterToStep(letter) == (CHOOSE i \in 1..7 : NATURAL[i] = letter) - 1

IsDigit(g) == g \in Range(OctaveDigits)

DigitValue(g) == (CHOOSE i \in 1..10 : OctaveDigits[i] = g) - 1

\* number -> decimal string (one glyph), as template literals and string
\* concatenation render it
NumStr(n) ==
    IF n \in 0..9 THEN OctaveDigits[n + 1]
    ELSE IF n = 10 THEN "10" ELSE IF n = 11 THEN "11" ELSE "12"

\* /^([a-gA-G]?)(#{1,}|b{1,}|x{1,}|)(-?\d*)\s*(.*)$/ : the accidental group is
\* the longest run of one and the same accidental glyph.
AccRun(name) ==
    LET F[i \in 1..(Len(name) + 1)] ==
            IF i > Len(name) THEN 0
            ELSE IF name[i] \in {"#", "b", "x"} /\ (i = 2 \/ name[i] = name[2])
                 THEN 1 + F[i + 1] ELSE 0
    IN  IF Len(name) < 2 THEN 0 ELSE F[2]

RECURSIVE SubstituteX(_)
SubstituteX(acc) ==
    IF acc = <<>> THEN <<>>
    ELSE (IF Head(acc) = "x" THEN <<"#", "#">> ELSE <<Head(acc)>>) \o SubstituteX(Tail(acc))

toAlteration(accidental) ==
    IF accidental = <<>> THEN 0
    ELSE IF accidental[1] = "b" THEN -Len(accidental) ELSE Len(accidental)

EmptyNote ==
    [valid |-> FALSE, name |-> <<>>, pc |-> <<>>, letter |-> "", step |-> -1,
     alteration |-> 0, octave |-> 0, chroma |-> 0, midi |-> 0]

\* NOTE.Validators.isName: a letter, an accidental run, an optional octave
\* digit and nothing else.
isName(name) ==
    /\ Len(name) >= 1
    /\ name[1] \in Range(NATURAL)
    /\ LET k == AccRun(name)
       IN  \/ Len(name) = 1 + k
           \/ Len(name) = 2 + k /\ IsDigit(name[Len(name)])

\* Note({ name })
NoteFromName(name) ==
    IF ~isName(name) THEN EmptyNote
    ELSE LET k          == AccRun(name)
             letter     == name[1]
             step       == LetterToStep(letter)
             accidental == SubstituteX(SubSeq(name, 2, 1 + k))
             alteration == toAlteration(accidental)
             octave     == IF Len(name) = 2 + k
                           THEN DigitValue(name[Len(name)]) ELSE DefaultOctave
             pc         == <<letter>> \o accidental
         IN  [valid |-> TRUE, name |-> pc \o <<NumStr(octave)>>, pc |-> pc,
              letter |-> letter, step |-> step, alteration |-> alteration,
              octave |-> octave,
              chroma |-> (SEMI[step + 1] + alteration + 120) % 12,
              midi |-> 12 * (octave + 1) + SEMI[step + 1] + alteration]

\* noteTokenize(token, NOTE.REGEX).Toct || ''
TokenOctave(name) ==
    IF isName(name) /\ Len(name) = 2 + AccRun(name) THEN <<name[Len(name)]>> ELSE <<>>

(***************************************************************************)
(* ann-music-interval: the Interval service.                               *)
(***************************************************************************)
IntervalTable ==
    {<<"1P", 1, 0>>, <<"2m", 2, 1>>, <<"2M", 2, 2>>, <<"3m", 3, 3>>, <<"3M", 3, 4>>,
     <<"4P", 4, 5>>, <<"4A", 4, 6>>, <<"5d", 5, 6>>, <<"5P", 5, 7>>, <<"5A", 5, 8>>,
     <<"6m", 6, 8>>, <<"6M", 6, 9>>, <<"7m", 7, 10>>, <<"7M", 7, 11>>}

Interval(name) ==
    LET row == CHOOSE r \in IntervalTable : r[1] = name
    IN  [name |-> name, inumber |-> row[2], width |-> row[3]]

(***************************************************************************)
(* ann-music-pc: pitch-class signatures.                                   *)
(***************************************************************************)
ChromaOf(intervals) ==
    [p \in 1..12 |->
        IF p = 1 \/ \E i \in DOMAIN intervals : Interval(intervals[i]).width % 12 = p - 1
        THEN "1" ELSE "0"]

\* parseInt(chroma, 2)
ChromaNum(chroma) ==
    LET F[i \in 0..Len(chroma)] ==
            IF i = 0 THEN 0 ELSE 2 * F[i - 1] + (IF chroma[i] = "1" THEN 1 ELSE 0)
    IN  F[Len(chroma)]

\* chroma rotated to start at its first set bit
Normalized(chroma) ==
    IF \A p \in DOMAIN chroma : chroma[p] = "0" THEN chroma
    ELSE rotate((CHOOSE p \in DOMAIN chroma :
                    chroma[p] = "1" /\ \A q \in 1..(p - 1) : chroma[q] = "0") - 1, chroma)

Pc(intervals) ==
    LET chroma == ChromaOf(intervals)
    IN  [pcnum |-> ChromaNum(chroma), chroma |-> chroma, normalized |-> Normalized(chroma)]

\* bitwise and of two chromas
ChromaAnd(a, b) == [p \in 1..12 |-> IF a[p] = "1" /\ b[p] = "1" THEN "1" ELSE "0"]

\* isSubsetOf(a)(b): a & b == a
isSubsetOf(a, b) == ChromaAnd(a, b) = a

\* isSupersetOf(a)(b) = isSubsetOf(b)(a)
isSupersetOf(a, b) == isSubsetOf(b, a)

(***************************************************************************)
(* data.ts: the raw templates [ivls, type, abbrvs].  ivls is given as the  *)
(* result of ivls.split(' '), abbrvs as the result of abbrvs.split(' ').   *)
(***************************************************************************)
W(word) == <<<<word>>>>

SCALE_LIST ==
    << [ivls |-> <<"1P", "2M", "3M", "5P", "6M">>,
        type |-> <<<<"major">>, <<"pentatonic">>>>, abbrvs |-> <<W("pentatonic")>>],
       [ivls |-> <<"1P", "3M", "4P", "5P", "7M">>,
        type |-> <<<<"ionian">>, <<"pentatonic">>>>, abbrvs |-> <<>>],
       [ivls |-> <<"1P", "2M", "3M", "4P", "5P", "6M", "7M">>,
        type |-> W("major"), abbrvs |-> <<W("ionian")>>],
       [ivls |-> <<"1P", "2M", "3M", "4P", "5P", "6M", "7m", "7M">>,
        type |-> <<<<"bebop">>, <<"dominant">>>>, abbrvs |-> <<W("bebop")>>],
       [ivls |-> <<"1P", "2m", "2M", "3m", "3M", "4P", "5d", "5P", "6m", "6M", "7m", "7M">>,
        type |-> W("chromatic"), abbrvs |-> <<>>] >>

(***************************************************************************)
(* dictionary.ts                                                           *)
(***************************************************************************)
toScaleType(row) ==
    LET intervals == row.ivls
        aliases   == row.abbrvs
        pc        == Pc(intervals)
    IN  [pc |-> [pcnum |-> pc.pcnum, chroma |-> pc.chroma, normalized |-> pc.normalized],
         type |-> row.type, aliases |-> aliases, intervals |-> intervals]

\* The index maps a key to the position in SCALE_TYPES of the object it
\* refers to: index[key] = scale stores a reference, not a copy.
toScales(chordTypes) ==
    LET Put(index, key, ref) == (key :> ref) @@ index
        PutAliases(index, aliases, ref) ==
            LET F[j \in 0..Len(aliases)] ==
                    IF j = 0 THEN index ELSE Put(F[j - 1], aliases[j], ref)
            IN  F[Len(aliases)]
        G[i \in 0..Len(chordTypes)] ==
            IF i = 0 THEN <<>>
            ELSE PutAliases(Put(G[i - 1], chordTypes[i].type, i), chordTypes[i].aliases, i)
    IN  G[Len(chordTypes)]

InitScaleTypes == [i \in DOMAIN SCALE_LIST |-> toScaleType(SCALE_LIST[i])]

InitScales == toScales(InitScaleTypes)

\* The index is the object literal {} of toScales: a read of a key the fold
\* never wrote falls through to Object.prototype.
ObjectPrototypeKeys ==
    {W("constructor"), W("toString"), W("valueOf"), W("hasOwnProperty"), W("__proto__")}

(***************************************************************************)
(* methods.ts: tokenize                                                    *)
(***************************************************************************)
tokenize(src) ==
    LET tokens == src
    IN  IF isName(tokens[1])
        THEN [sname  |-> NoteFromName(tokens[1]).pc,
              stype  |-> IF Len(tokens) = 1 THEN <<<<>>>> ELSE Tail(tokens),
              octave |-> TokenOctave(tokens[1])]
        ELSE [sname |-> <<>>, stype |-> tokens, octave |-> <<>>]

\* String.prototype.trim on a string given by its tokens
RECURSIVE TrimLeft(_)
TrimLeft(s) == IF Len(s) > 1 /\ s[1] = <<>> THEN TrimLeft(Tail(s)) ELSE s

RECURSIVE TrimRight(_)
TrimRight(s) ==
    IF Len(s) > 1 /\ s[Len(s)] = <<>> THEN TrimRight(SubSeq(s, 1, Len(s) - 1)) ELSE s

Trim(s) == TrimRight(TrimLeft(s))

(***************************************************************************)
(* properties.ts                                                           *)
(***************************************************************************)
EmptyPc == [pcnum |-> 0, chroma |-> [p \in 1..12 |-> "0"], normalized |-> [p \in 1..12 |-> "0"]]

NoScaleType == [pc |-> EmptyPc, type |-> <<<<>>>>, intervals |-> <<>>, aliases |-> <<>>]

\* pcRef names the object the pc field refers to: 0 is EmptyPc, i > 0 is the
\* pc object of SCALE_TYPES[i].
NoScale ==
    [pc |-> EmptyPc, pcRef |-> 0, name |-> <<<<>>>>, type |-> <<<<>>>>, tonic |-> <<>>,
     aliases |-> <<>>, notes |-> <<>>, intervals |-> <<>>, formula |-> <<>>,
     length |-> 0, valid |-> FALSE]

\* nextScaleStep with the + 1 of the letter step left out
nextScaleStepSameLetter(currentNote, midi) ==
    LET midiTransposedNote == [midi |-> currentNote.midi + midi]
        newLetter == NATURAL[(LetterToStep(currentNote.letter) % 7) + 1]
        ltn1 == NoteFromName(<<newLetter, NumStr(currentNote.octave)>>)
        ltn2 == NoteFromName(<<newLetter, NumStr(currentNote.octave + 1)>>)
        diff1 == Abs(midiTransposedNote.midi - ltn1.midi)
        diff2 == Abs(midiTransposedNote.midi - ltn2.midi)
        octaveOffset == IF diff1 < diff2 THEN ltn1.octave ELSE ltn2.octave
        letterTransposedNote == NoteFromName(<<newLetter, NumStr(octaveOffset)>>)
        diff == midiTransposedNote.midi - letterTransposedNote.midi
    IN  IF diff = 0 THEN letterTransposedNote.name
        ELSE IF diff < 0
             THEN <<letterTransposedNote.letter>> \o Repeat("b", -1 * diff)
                  \o <<NumStr(letterTransposedNote.octave)>>
             ELSE <<letterTransposedNote.letter>> \o Repeat("#", diff)
                  \o <<NumStr(octaveOffset)>>

\* nextScaleStep with the accidental measured from ltn1, not from the octave chosen
nextScaleStepDiffFromLtn1(currentNote, midi) ==
    LET midiTransposedNote == [midi |-> currentNote.midi + midi]
        newLetter == NATURAL[((LetterToStep(currentNote.letter) + 1) % 7) + 1]
        ltn1 == NoteFromName(<<newLetter, NumStr(currentNote.octave)>>)
        ltn2 == NoteFromName(<<newLetter, NumStr(currentNote.octave + 1)>>)
        diff1 == Abs(midiTransposedNote.midi - ltn1.midi)
        diff2 == Abs(midiTransposedNote.midi - ltn2.midi)
        octaveOffset == IF diff1 < diff2 THEN ltn1.octave ELSE ltn2.octave
        letterTransposedNote == NoteFromName(<<newLetter, NumStr(octaveOffset)>>)
        diff == midiTransposedNote.midi - ltn1.midi
    IN  IF diff = 0 THEN letterTransposedNote.name
        ELSE IF diff < 0
             THEN <<letterTransposedNote.letter>> \o Repeat("b", -1 * diff)
                  \o <<NumStr(letterTransposedNote.octave)>>
             ELSE <<letterTransposedNote.letter>> \o Repeat("#", diff)
                  \o <<NumStr(octaveOffset)>>

nextScaleStep(currentNote, midi) ==
    LET midiTransposedNote == [midi |-> currentNote.midi + midi]
        newLetter == NATURAL[((LetterToStep(currentNote.letter) + 1) % 7) + 1]
        ltn1 == NoteFromName(<<newLetter, NumStr(currentNote.octave)>>)
        ltn2 == NoteFromName(<<newLetter, NumStr(currentNote.octave + 1)>>)
        diff1 == Abs(midiTransposedNote.midi - ltn1.midi)
        diff2 == Abs(midiTransposedNote.midi - ltn2.midi)
        octaveOffset == IF diff1 < diff2 THEN ltn1.octave ELSE ltn2.octave
        letterTransposedNote == NoteFromName(<<newLetter, NumStr(octaveOffset)>>)
        diff == midiTransposedNote.midi - letterTransposedNote.midi
    IN  IF diff = 0 THEN letterTransposedNote.name
        ELSE IF diff < 0
             THEN <<letterTransposedNote.letter>> \o Repeat("b", -1 * diff)
                  \o <<NumStr(letterTransposedNote.octave)>>
             ELSE <<letterTransposedNote.letter>> \o Repeat("#", diff)
                  \o <<NumStr(octaveOffset)>>

\* note.replace('##', 'x'): a string pattern replaces the first match only
ReplaceSharps(note) ==
    LET hits == {i \in 1..(Len(note) - 1) : note[i] = "#" /\ note[i + 1] = "#"}
    IN  IF hits = {} THEN note
        ELSE LET i == CHOOSE h \in hits : \A g \in hits : h <= g
             IN  SubSeq(note, 1, i - 1) \o <<"x">> \o SubSeq(note, i + 2, Len(note))

\* the loop of scaleNotes: notes holds notes[0..i-1], widths is scaleFormula.
\* (A value is named by drawing it from a singleton set, so that it is
\* computed once.)
RECURSIVE SpellLoop(_, _, _)
SpellLoop(notes, widths, i) ==
    IF ~(i < Len(widths)) THEN notes
    ELSE LET midi == widths[i + 1] - widths[i]
         IN  CHOOSE result \in
                 { SpellLoop(Append(notes, nextStep), widths, i + 1) :
                     nextStep \in { nextScaleStep(currentNote, midi) :
                                      currentNote \in {NoteFromName(notes[i])} } } : TRUE

\* scaleNotes with the loop bound one short: i < scaleFormula.length - 1
scaleNotesOneShort(tonic, intervals) ==
    LET note   == NoteFromName(tonic)
        widths == [i \in DOMAIN intervals |-> Interval(intervals[i]).width]
    IN  IF ~note.valid THEN <<>>
        ELSE CHOOSE result \in
                 { [i \in DOMAIN notes |-> ReplaceSharps(notes[i])] :
                     notes \in {SpellLoop(<<note.name>>,
                                          SubSeq(widths, 1, Len(widths) - 1), 1)} } : TRUE

scaleNotes(tonic, intervals) ==
    LET note   == NoteFromName(tonic)
        widths == [i \in DOMAIN intervals |-> Interval(intervals[i]).width]
    IN  IF ~note.valid THEN <<>>
        ELSE CHOOSE result \in
                 { [i \in DOMAIN notes |-> ReplaceSharps(notes[i])] :
                     notes \in {SpellLoop(<<note.name>>, widths, 1)} } : TRUE

\* intervals.map(width).join('-')
scaleFormula(intervals) ==
    LET F[i \in 0..Len(intervals)] ==
            IF i = 0 THEN <<>>
            ELSE (IF i = 1 THEN <<>> ELSE F[i - 1] \o <<"-">>)
                 \o <<NumStr(Interval(intervals[i]).width)>>
    IN  F[Len(intervals)]

\* SCALES[type.trim()] || NoScaleType.  kind is "own" for an entry of the
\* dictionary (ref is its position), "inherited" for a member of
\* Object.prototype (truthy, not a ScaleType), "none" for NoScaleType.
scaleType(types, index, type) ==
    LET key == Trim(type)
    IN  IF key \in DOMAIN index THEN [kind |-> "own", ref |-> index[key]]
        ELSE IF key \in ObjectPrototypeKeys THEN [kind |-> "inherited", ref |-> 0]
        ELSE [kind |-> "none", ref |-> 0]

\* Scale with the tonic's pitch class counted from 1 (C = 1) in the rotation
ScalePitchClassFromOne(types, index, src) ==
    LET tok  == tokenize(src)
        root == NoteFromName(tok.sname \o tok.octave)
        st   == scaleType(types, index, tok.stype)
    IN  IF st.kind = "inherited"
        THEN \* intervals is undefined: intervals.length throws a TypeError
             [threw |-> TRUE, scale |-> NoScale, types |-> types]
        ELSE IF st.kind = "none"
        THEN [threw |-> FALSE, scale |-> NoScale, types |-> types]
        ELSE LET entry  == types[st.ref]
                 chroma == IF root.valid THEN rotate(-(root.chroma + 1), entry.pc.chroma)
                           ELSE entry.pc.chroma
                 \* pc is the dictionary's own object: the assignment writes it
                 types2 == [types EXCEPT ![st.ref].pc.chroma = chroma]
                 name   == IF root.valid THEN <<root.pc>> \o entry.type ELSE entry.type
                 tonic  == IF root.valid THEN root.pc ELSE <<>>
             IN  [threw |-> FALSE,
                  scale |-> [type |-> entry.type, aliases |-> entry.aliases,
                             intervals |-> entry.intervals,
                             pc |-> types2[st.ref].pc, pcRef |-> st.ref,
                             name |-> name, formula |-> scaleFormula(entry.intervals),
                             tonic |-> tonic,
                             notes |-> scaleNotes(root.name, entry.intervals),
                             length |-> Len(entry.intervals), valid |-> TRUE],
                  types |-> types2]

\* Scale with the rotation not negated: rotate(root.chroma, chromaArr)
ScaleRotateForward(types, index, src) ==
    LET tok  == tokenize(src)
        root == NoteFromName(tok.sname \o tok.octave)
        st   == scaleType(types, index, tok.stype)
    IN  IF st.kind = "inherited"
        THEN \* intervals is undefined: intervals.length throws a TypeError
             [threw |-> TRUE, scale |-> NoScale, types |-> types]
        ELSE IF st.kind = "none"
        THEN [threw |-> FALSE, scale |-> NoScale, types |-> types]
        ELSE LET entry  == types[st.ref]
                 chroma == IF root.valid THEN rotate(root.chroma, entry.pc.chroma)
                           ELSE entry.pc.chroma
                 \* pc is the dictionary's own object: the assignment writes it
                 types2 == [types EXCEPT ![st.ref].pc.chroma = chroma]
                 name   == IF root.valid THEN <<root.pc>> \o entry.type ELSE entry.type
                 tonic  == IF root.valid THEN root.pc ELSE <<>>
             IN  [threw |-> FALSE,
                  scale |-> [type |-> entry.type, aliases |-> entry.aliases,
                             intervals |-> entry.intervals,
                             pc |-> types2[st.ref].pc, pcRef |-> st.ref,
                             name |-> name, formula |-> scaleFormula(entry.intervals),
                             tonic |-> tonic,
                             notes |-> scaleNotes(root.name, entry.intervals),
                             length |-> Len(entry.intervals), valid |-> TRUE],
                  types |-> types2]

\* Scale named by the type string it was asked for, not by the entry's type
ScaleNamedAsAsked(types, index, src) ==
    LET tok  == tokenize(src)
        root == NoteFromName(tok.sname \o tok.octave)
        st   == scaleType(types, index, tok.stype)
    IN  IF st.kind = "inherited"
        THEN \* intervals is undefined: intervals.length throws a TypeError
             [threw |-> TRUE, scale |-> NoScale, types |-> types]
        ELSE IF st.kind = "none"
        THEN [threw |-> FALSE, scale |-> NoScale, types |-> types]
        ELSE LET entry  == types[st.ref]
                 chroma == IF root.valid THEN rotate(-root.chroma, entry.pc.chroma)
                           ELSE entry.pc.chroma
                 \* pc is the dictionary's own object: the assignment writes it
                 types2 == [types EXCEPT ![st.ref].pc.chroma = chroma]
                 name   == IF root.valid THEN <<root.pc>> \o Trim(tok.stype) ELSE Trim(tok.stype)
                 tonic  == IF root.valid THEN root.pc ELSE <<>>
             IN  [threw |-> FALSE,
                  scale |-> [type |-> entry.type, aliases |-> entry.aliases,
                             intervals |-> entry.intervals,
                             pc |-> types2[st.ref].pc, pcRef |-> st.ref,
                             name |-> name, formula |-> scaleFormula(entry.intervals),
                             tonic |-> tonic,
                             notes |-> scaleNotes(root.name, entry.intervals),
                             length |-> Len(entry.intervals), valid |-> TRUE],
                  types |-> types2]

\* Scale(src) run against the dictionary (types, index).  Returns whether
\* the call threw, the ScaleProps it returned, and the dictionary after it.
Scale(types, index, src) ==
    LET tok  == tokenize(src)
        root == NoteFromName(tok.sname \o tok.octave)
        st   == scaleType(types, index, tok.stype)
    IN  IF st.kind = "inherited"
        THEN \* intervals is undefined: intervals.length throws a TypeError
             [threw |-> TRUE, scale |-> NoScale, types |-> types]
        ELSE IF st.kind = "none"
        THEN [threw |-> FALSE, scale |-> NoScale, types |-> types]
        ELSE LET entry  == types[st.ref]
                 chroma == IF root.valid THEN rotate(-root.chroma, entry.pc.chroma)
                           ELSE entry.pc.chroma
                 \* pc is the dictionary's own object: the assignment writes it
                 types2 == [types EXCEPT ![st.ref].pc.chroma = chroma]
                 name   == IF root.valid THEN <<root.pc>> \o entry.type ELSE entry.type
                 tonic  == IF root.valid THEN root.pc ELSE <<>>
             IN  [threw |-> FALSE,
                  scale |-> [type |-> entry.type, aliases |-> entry.aliases,
                             intervals |-> entry.intervals,
                             pc |-> types2[st.ref].pc, pcRef |-> st.ref,
                             name |-> name, formula |-> scaleFormula(entry.intervals),
                             tonic |-> tonic,
                             notes |-> scaleNotes(root.name, entry.intervals),
                             length |-> Len(entry.intervals), valid |-> TRUE],
                  types |-> types2]

(***************************************************************************)
(* methods.ts: the derived queries, run against the dictionary (types,     *)
(* index).  Each returns whether it threw, the list it returned, the Scale *)
(* value it built and the dictionary after it.                             *)
(***************************************************************************)
\* SCALE_TYPES.filter(...).map(sc => sc.type), kept being the positions the
\* filter keeps
TypesOf(types, kept) ==
    LET F[i \in 0..Len(types)] ==
            IF i = 0 THEN <<>>
            ELSE IF i \in kept THEN Append(F[i - 1], types[i].type) ELSE F[i - 1]
    IN  F[Len(types)]

extended(types, index, scale) ==
    LET \* s.pc is read after Scale has written the shared pc object
        isSuperset(s, sc) == isSupersetOf(s.pc.chroma, sc.pc.chroma)
        Result(r) ==
            [threw |-> r.threw, scale |-> r.scale, types |-> r.types,
             list |-> IF r.threw THEN <<>>
                      ELSE TypesOf(r.types,
                                   {i \in DOMAIN r.types : isSuperset(r.scale, r.types[i])})]
    IN  CHOOSE result \in {Result(r) : r \in {Scale(types, index, scale)}} : TRUE

reduced(types, index, scale) ==
    LET isSubset(s, sc) == isSubsetOf(s.pc.chroma, sc.pc.chroma)
        Result(r) ==
            [threw |-> r.threw, scale |-> r.scale, types |-> r.types,
             list |-> IF r.threw THEN <<>>
                      ELSE TypesOf(r.types,
                                   {i \in DOMAIN r.types : isSubset(r.scale, r.types[i])})]
    IN  CHOOSE result \in {Result(r) : r \in {Scale(types, index, scale)}} : TRUE

\* the step symbol of semitonesToStep (index.ts): 3 -> 'W.', anything else undefined
StepSymbolUpToThree(diff) ==
    IF diff = 1 THEN "H" ELSE IF diff = 2 THEN "W" ELSE IF diff = 3 THEN "W." ELSE "undefined"

StepSymbol(diff) == IF diff = 1 THEN "H" ELSE IF diff = 2 THEN "W" ELSE "W."

\* toSteps with the loop started one entry late: for (let i = 2; ...)
toStepsFromSecond(types, index, scale) ==
    LET Result(r) ==
            LET intervals == r.scale.intervals
                semitones == [i \in DOMAIN intervals |-> Interval(intervals[i]).width]
                scaleSteps == [i \in 1..(Len(semitones) - 2) |->
                                  StepSymbol(semitones[i + 2] - semitones[i + 1])]
            IN  [threw |-> r.threw, scale |-> r.scale, types |-> r.types,
                 list |-> IF r.threw THEN <<>> ELSE scaleSteps]
    IN  CHOOSE result \in {Result(r) : r \in {Scale(types, index, scale)}} : TRUE

toSteps(types, index, scale) ==
    LET Result(r) ==
            LET intervals == r.scale.intervals
                semitones == [i \in DOMAIN intervals |-> Interval(intervals[i]).width]
                scaleSteps == [i \in 1..(Len(semitones) - 1) |->
                                  StepSymbol(semitones[i + 1] - semitones[i])]
            IN  [threw |-> r.threw, scale |-> r.scale, types |-> r.types,
                 list |-> IF r.threw THEN <<>> ELSE scaleSteps]
    IN  CHOOSE result \in {Result(r) : r \in {Scale(types, index, scale)}} : TRUE

(***************************************************************************)
(* index.ts, the earlier single-module revision: namespace Dictionary.     *)
(* A ScaleType is flat there ({ ...PC(intervals), name, intervals,         *)
(* aliases }) and the index has a key for the name, the set number, the    *)
(* chroma and each alias.  A property key is a string: a number is keyed   *)
(* by its decimal digits, a chroma by its twelve characters.               *)
(***************************************************************************)
RECURSIVE DecStr(_)
DecStr(n) ==
    IF n < 10 THEN <<OctaveDigits[n + 1]>>
    ELSE DecStr(n \div 10) \o <<OctaveDigits[(n % 10) + 1]>>

\* index[scale.setNum]: the number becomes the property name String(setNum)
NumKey(setNum) == <<DecStr(setNum)>>

\* index[scale.chroma]
ChromaKey(chroma) == <<chroma>>

\* the templates the lists of the earlier revision are drawn from:
\* [ivls, name, ...aliases]
TEMPLATES ==
    { [ivls |-> <<"1P", "2M", "3M", "5P", "6M">>,
       name |-> <<<<"major">>, <<"pentatonic">>>>, aliases |-> <<W("pentatonic")>>],
      [ivls |-> <<"1P", "2M", "4P", "5P", "7m">>,
       name |-> W("egyptian"), aliases |-> <<>>],
      [ivls |-> <<"1P", "3m", "4P", "5P", "7m">>,
       name |-> <<<<"minor">>, <<"pentatonic">>>>, aliases |-> <<>>],
      [ivls |-> <<"1P", "2M", "3M", "4P", "5P", "6M", "7M">>,
       name |-> W("major"), aliases |-> <<W("ionian")>>],
      [ivls |-> <<"1P", "2M", "3M", "4A", "5A", "7m">>,
       name |-> <<<<"whole">>, <<"tone">>>>, aliases |-> <<>>],
      [ivls |-> <<"1P", "2M", "3M", "5d", "6m", "7m">>,
       name |-> <<<<"auxiliary">>, <<"augmented">>>>, aliases |-> <<>>],
      [ivls |-> <<"1P", "2M", "3M", "4P", "5P", "6M", "7M">>,
       name |-> W("ionian"), aliases |-> <<>>] }

\* source lists of up to MaxTemplates templates with pairwise different names
MaxTemplates == 3

TemplateLists ==
    UNION { { l \in [1..n -> TEMPLATES] : \A i, j \in 1..n : i # j => l[i].name # l[j].name } :
            n \in 1..MaxTemplates }

Dictionary_toScaleType(row) ==
    LET intervals == row.ivls
        pc        == Pc(intervals)
    IN  [setNum |-> pc.pcnum, chroma |-> pc.chroma, normalized |-> pc.normalized,
         empty |-> FALSE, name |-> row.name, intervals |-> intervals,
         aliases |-> row.aliases]

\* The index maps a key to the position in types of the object it refers to;
\* an assignment to a key that is there replaces what it refers to.
Dictionary_toScales(chordTypes) ==
    LET Put(index, key, ref) == (key :> ref) @@ index
        PutAliases(index, aliases, ref) ==
            LET F[j \in 0..Len(aliases)] ==
                    IF j = 0 THEN index ELSE Put(F[j - 1], aliases[j], ref)
            IN  F[Len(aliases)]
        G[i \in 0..Len(chordTypes)] ==
            IF i = 0 THEN <<>>
            ELSE PutAliases(
                     Put(Put(Put(G[i - 1], chordTypes[i].name, i),
                             NumKey(chordTypes[i].setNum), i),
                         ChromaKey(chordTypes[i].chroma), i),
                     chordTypes[i].aliases, i)
    IN  G[Len(chordTypes)]

(***************************************************************************)
(* index.ts, the earlier revision: namespace Theory, Static.tokenize,      *)
(* nextScaleStep, scaleNotes, Scale and Static.modes.  D is the loaded     *)
(* namespace Dictionary (types, all).                                      *)
(***************************************************************************)
\* PcStatic.Empty spread into NoScaleType: what Scale reads of it is empty
Theory_NoScaleType ==
    [setNum |-> 0, chroma |-> [p \in 1..12 |-> "0"], normalized |-> [p \in 1..12 |-> "0"],
     empty |-> TRUE, name |-> <<<<>>>>, intervals |-> <<>>, aliases |-> <<>>]

\* setNum is NaN, chroma and normalized are ''
Theory_NoScale ==
    [empty |-> TRUE, name |-> <<<<>>>>, type |-> <<<<>>>>, tonic |-> <<>>, length |-> 0,
     setNum |-> "NaN", chroma |-> <<>>, normalized |-> <<>>, aliases |-> <<>>,
     notes |-> <<>>, intervals |-> <<>>, scaleFormula |-> <<>>, valid |-> FALSE]

Static_tokenize(src) ==
    LET tokens == src
    IN  IF isName(tokens[1])
        THEN [sname  |-> NoteFromName(tokens[1]).pc,
              stype  |-> IF Len(tokens) = 1 THEN <<<<>>>> ELSE Tail(tokens),
              octave |-> TokenOctave(tokens[1])]
        ELSE [sname |-> <<>>, stype |-> tokens, octave |-> <<>>]

\* the earlier nextScaleStep: the octave goes up when the new letter is C
Index_nextScaleStep(currentNote, midi) ==
    LET midiTransposedNote == [midi |-> currentNote.midi + midi]
        newLetter == NATURAL[((LetterToStep(currentNote.letter) + 1) % 7) + 1]
        octaveOffset == IF newLetter = "C" THEN currentNote.octave + 1
                        ELSE currentNote.octave
        letterTransposedNote == NoteFromName(<<newLetter, NumStr(octaveOffset)>>)
        diff == midiTransposedNote.midi - letterTransposedNote.midi
    IN  IF diff = 0 THEN letterTransposedNote.name
        ELSE IF diff < 0
             THEN <<letterTransposedNote.letter>> \o Repeat("b", -1 * diff)
                  \o <<NumStr(letterTransposedNote.octave)>>
             ELSE <<letterTransposedNote.letter>> \o Repeat("#", diff)
                  \o <<NumStr(letterTransposedNote.octave)>>

RECURSIVE Index_SpellLoop(_, _, _)
Index_SpellLoop(notes, widths, i) ==
    IF ~(i < Len(widths)) THEN notes
    ELSE LET midi == widths[i + 1] - widths[i]
         IN  CHOOSE result \in
                 { Index_SpellLoop(Append(notes, nextStep), widths, i + 1) :
                     nextStep \in { Index_nextScaleStep(currentNote, midi) :
                                      currentNote \in {NoteFromName(notes[i])} } } : TRUE

Index_scaleNotes(tonic, intervals) ==
    LET note   == NoteFromName(tonic)
        widths == [i \in DOMAIN intervals |-> Interval(intervals[i]).width]
    IN  Index_SpellLoop(<<note.name>>, widths, 1)

\* Scale(src), src a string.  Returns whether the call threw and the
\* ScaleProps it returned; the spread { ...st, chroma } is a copy, the
\* dictionary is only read.
Index_Scale(D, src) ==
    LET tok   == Static_tokenize(src)
        tonic == NoteFromName(tok.sname \o tok.octave)
        key   == Trim(tok.stype)
    IN  IF key \notin DOMAIN D.all /\ key \in ObjectPrototypeKeys
        THEN \* st is a member of Object.prototype: st.intervals is undefined
             \* and st.intervals.map throws a TypeError
             [threw |-> TRUE, scale |-> Theory_NoScale]
        ELSE IF key \notin DOMAIN D.all
        THEN [threw |-> FALSE, scale |-> Theory_NoScale]
        ELSE LET st     == D.types[D.all[key]]
                 \* tonic.chroma is falsy for C (0) and for an invalid note
                 chroma == IF tonic.valid /\ tonic.chroma # 0
                           THEN rotate(-tonic.chroma, st.chroma) ELSE st.chroma
                 type   == st.name
                 notes  == IF tonic.valid THEN Index_scaleNotes(tonic.name, st.intervals)
                           ELSE <<>>
                 name   == IF tonic.valid THEN <<tonic.pc>> \o type ELSE type
             IN  [threw |-> FALSE,
                  scale |-> [empty |-> FALSE, setNum |-> st.setNum, chroma |-> chroma,
                             normalized |-> st.normalized, intervals |-> st.intervals,
                             aliases |-> st.aliases, name |-> name, type |-> type,
                             tonic |-> tonic.pc, notes |-> notes,
                             scaleFormula |-> scaleFormula(st.intervals), valid |-> TRUE]]

\* ann-music-pc modes(chroma): the rotations of the chroma that begin at a
\* set bit, in ascending order of that bit
pcmodes(chroma) ==
    LET F[i \in 0..Len(chroma)] ==
            IF i = 0 THEN <<>>
            ELSE IF chroma[i] = "1" THEN Append(F[i - 1], rotate(i - 1, chroma))
                 ELSE F[i - 1]
    IN  F[Len(chroma)]

\* modes(scale): the pairs kept by .filter(x => x[0]), in order
Static_modes(D, scale) ==
    LET Result(r) ==
            LET s      == r.scale
                tonics == IF s.tonic # <<>> THEN s.notes ELSE s.intervals
                cands  == IF s.empty THEN <<>> ELSE pcmodes(s.chroma)
                modeName(i) == Index_Scale(D, <<cands[i]>>).scale.name
                \* tonics[i] is undefined past the end of tonics
                kept(i) == modeName(i) # <<<<>>>> /\ i \in DOMAIN tonics
                P[i \in 0..Len(cands)] ==
                    IF i = 0 THEN <<>>
                    ELSE IF kept(i) THEN Append(P[i - 1], <<tonics[i], modeName(i)>>)
                         ELSE P[i - 1]
            IN  [threw |-> r.threw, scale |-> s,
                 pairs |-> IF r.threw THEN <<>> ELSE P[Len(cands)]]
    IN  CHOOSE result \in {Result(r) : r \in {Index_Scale(D, scale)}} : TRUE

(***************************************************************************)
(* The callers' inputs.                                                    *)
(***************************************************************************)
TonicTokens == { <<"C">>, <<"D">>, <<"F", "#", "3">> }

TypeStrings ==
    { W("major"), W("ionian"), <<<<"major">>, <<"pentatonic">>>>,
      <<<<"ionian">>, <<"pentatonic">>>>, <<<<"bebop">>, <<"dominant">>>>,
      W("chromatic"), <<<<>>, <<"major">>, <<>>>>,
      W("nonexistent"), W("constructor") }

\* "X major": the first token is not a note name
Sources ==
    TypeStrings \cup {<<t>> \o ty : t \in TonicTokens, ty \in TypeStrings}
    \cup {<<<<"X">>, <<"major">>>>}

\* the arguments of extended, reduced and toSteps
QuerySources ==
    { W("major"), <<<<"major">>, <<"pentatonic">>>>, <<<<"ionian">>, <<"pentatonic">>>>,
      <<<<"bebop">>, <<"dominant">>>>, W("chromatic"), W("nonexistent"), W("constructor"),
      <<<<"C">>, <<"major">>>>, <<<<"D">>, <<"major">>>>,
      <<<<"D">>, <<"major">>, <<"pentatonic">>>>, <<<<"F", "#", "3">>, <<"chromatic">>>> }

\* the inputs of scaleNotes taken on its own
SpellTonics ==
    { <<l>> \o a \o o : l \in Range(NATURAL), a \in {<<>>, <<"#">>, <<"b">>},
                        o \in {<<>>, <<"3">>} }

SpellFormulas ==
    Range([i \in DOMAIN SCALE_LIST |-> SCALE_LIST[i].ivls]) \cup
    { <<"1P", "2M", "3m", "4P", "5P", "6m", "7M">>,
      <<"1P", "2m", "3m", "4P", "5d", "6m", "7m">>,
      <<"1P", "2M", "3M", "4A", "5A", "7m">>,
      <<"1P", "2M", "3m", "4P", "5d", "6m", "6M", "7M">> }

\* the arguments of modes
ModeSources ==
    { <<<<"major">>, <<"pentatonic">>>>, W("pentatonic"), W("major"), W("egyptian"),
      <<<<"whole">>, <<"tone">>>>, W("nonexistent"), W("constructor"),
      <<<<"C">>, <<"major">>, <<"pentatonic">>>>, <<<<"D">>, <<"major">>, <<"pentatonic">>>>,
      <<<<"A">>, <<"major">>, <<"pentatonic">>>>, <<<<"F", "#", "3">>, <<"egyptian">>>>,
      <<<<"C">>, <<"major">>>>, <<<<"D">>, <<"ionian">>>>, <<<<"B", "b">>, <<"whole">>, <<"tone">>>> }

(***************************************************************************)
(* The state machine: the module-level dictionary, and the last call with  *)
(* what it returned.                                                       *)
(***************************************************************************)
NoCall == [op |-> "none", src |-> <<<<>>>>, threw |-> FALSE, scale |-> NoScale, list |-> <<>>]

NoSpell == [tonic |-> <<>>, intervals |-> <<>>, notes |-> <<>>, done |-> FALSE]

\* the earlier revision's dictionary and modes call, not in use
NoDictionary == [list |-> <<>>, built |-> FALSE, types |-> <<>>, all |-> <<>>]

NoModes == [src |-> <<<<>>>>, threw |-> FALSE, scale |-> <<>>, pairs |-> <<>>, done |-> FALSE]

Init ==
    /\ SCALE_TYPES = InitScaleTypes
    /\ SCALES = toScales(SCALE_TYPES)
    /\ last = NoCall
    /\ prev = NoCall
    /\ calls = 0
    /\ spell = NoSpell
    /\ Dictionary = NoDictionary
    /\ mode = NoModes

Returned(op, src, r, list) ==
    /\ SCALE_TYPES' = r.types
    /\ last' = [op |-> op, src |-> src, threw |-> r.threw, scale |-> r.scale, list |-> list]
    \* prev is what the caller kept of the call it repeats: the result of the
    \* call before, when this call has the same operation and argument
    /\ prev' = IF last.op = op /\ last.src = src THEN last ELSE NoCall
    /\ calls' = calls + 1
    /\ UNCHANGED <<SCALES, spell, Dictionary, mode>>

CallScale ==
    /\ calls < MaxCalls
    /\ \E src \in Sources :
         \E r \in {Scale(SCALE_TYPES, SCALES, src)} : Returned("Scale", src, r, <<>>)

CallExtended ==
    /\ calls < MaxCalls
    /\ \E src \in QuerySources :
         \E r \in {extended(SCALE_TYPES, SCALES, src)} : Returned("extended", src, r, r.list)

CallReduced ==
    /\ calls < MaxCalls
    /\ \E src \in QuerySources :
         \E r \in {reduced(SCALE_TYPES, SCALES, src)} : Returned("reduced", src, r, r.list)

CallToSteps ==
    /\ calls < MaxCalls
    /\ \E src \in QuerySources :
         \E r \in {toSteps(SCALE_TYPES, SCALES, src)} : Returned("toSteps", src, r, r.list)

Next == CallScale \/ CallExtended \/ CallReduced \/ CallToSteps

Spec == Init /\ [][Next]_vars

(***************************************************************************)
(* scaleNotes as a function of its arguments: the arguments are drawn in   *)
(* the initial state and the one action applies it.                        *)
(***************************************************************************)
InitNotes ==
    /\ SCALE_TYPES = InitScaleTypes
    /\ SCALES = toScales(SCALE_TYPES)
    /\ last = NoCall
    /\ prev = NoCall
    /\ calls = 0
    /\ Dictionary = NoDictionary
    /\ mode = NoModes
    /\ \E t \in SpellTonics, f \in SpellFormulas :
         spell = [tonic |-> t, intervals |-> f, notes |-> <<>>, done |-> FALSE]

ApplyScaleNotes ==
    /\ ~spell.done
    /\ spell' = [spell EXCEPT !.notes = scaleNotes(spell.tonic, spell.intervals),
                              !.done = TRUE]
    /\ UNCHANGED <<SCALE_TYPES, SCALES, last, prev, calls, Dictionary, mode>>

NextNotes == ApplyScaleNotes

SpecNotes == InitNotes /\ [][NextNotes]_vars

(***************************************************************************)
(* The earlier revision (index.ts): the source list is drawn in the        *)
(* initial state, BuildDictionary is the module's load (Dictionary.types,  *)
(* Dictionary.all).                                                        *)
(***************************************************************************)
InitIndex ==
    /\ SCALE_TYPES = <<>>
    /\ SCALES = <<>>
    /\ last = NoCall
    /\ prev = NoCall
    /\ calls = 0
    /\ spell = NoSpell
    /\ mode = NoModes
    /\ \E list \in TemplateLists :
         Dictionary = [list |-> list, built |-> FALSE, types |-> <<>>, all |-> <<>>]

BuildDictionary ==
    /\ ~Dictionary.built
    /\ \E types \in {[i \in DOMAIN Dictionary.list |-> Dictionary_toScaleType(Dictionary.list[i])]} :
         Dictionary' = [Dictionary EXCEPT !.built = TRUE, !.types = types,
                                          !.all = Dictionary_toScales(types)]
    \* dictionary.ts loads from the same list: a row [ivls, type, abbrvs],
    \* abbrvs split at spaces (the aliases of the lists are single words)
    /\ \E types \in {[i \in DOMAIN Dictionary.list |->
                         toScaleType([ivls   |-> Dictionary.list[i].ivls,
                                      type   |-> Dictionary.list[i].name,
                                      abbrvs |-> Dictionary.list[i].aliases])]} :
         /\ SCALE_TYPES' = types
         /\ SCALES' = toScales(types)
    /\ UNCHANGED <<last, prev, calls, spell, mode>>

CallModes ==
    /\ Dictionary.built
    /\ ~mode.done
    /\ \E src \in ModeSources :
         \E r \in {Static_modes(Dictionary, src)} :
            mode' = [src |-> src, threw |-> r.threw, scale |-> r.scale,
                     pairs |-> r.pairs, done |-> TRUE]
    /\ UNCHANGED <<SCALE_TYPES, SCALES, last, prev, calls, spell, Dictionary>>

NextIndex == BuildDictionary \/ CallModes

SpecIndex == InitIndex /\ [][NextIndex]_vars

(***************************************************************************)
(* What a call was given, read off its argument.                           *)
(***************************************************************************)
\* the argument names a tonic: its first token is a note name
HasTonic(src) == isName(src[1])

\* the type part of the argument, trimmed
TypeKey(src) == Trim(tokenize(src).stype)

\* the type part is a name or an alias registered by toScales
Registered(src) == TypeKey(src) \in DOMAIN InitScales

\* the template the type part names, as built at construction
Template(src) == InitScaleTypes[InitScales[TypeKey(src)]]

\* what the same Scale call returns as the very first call
FirstCall(src) == Scale(InitScaleTypes, InitScales, src)

(***************************************************************************)
(* C1.  Scale is deterministic across call history: whatever calls came    *)
(* before, Scale(src) returns what it returns as the first call after the  *)
(* dictionary was built.                                                   *)
(***************************************************************************)
C1_ScaleDeterministic ==
    last.op = "Scale" =>
        /\ last.threw = FirstCall(last.src).threw
        /\ last.scale = FirstCall(last.src).scale

(***************************************************************************)
(* C2.  The dictionary is never mutated after it is built: every entry     *)
(* keeps its type, aliases, intervals and pc (pcnum, chroma, normalized),  *)
(* and every key keeps its entry.                                          *)
(***************************************************************************)
C2_DictionaryNeverMutated ==
    /\ SCALE_TYPES = InitScaleTypes
    /\ SCALES = InitScales

(***************************************************************************)
(* C3.  For a valid tonic and a registered type name, the Scale built has  *)
(* exactly as many notes as intervals.                                     *)
(***************************************************************************)
C3_NotesMatchIntervals ==
    (last.op # "none" /\ HasTonic(last.src) /\ Registered(last.src)) =>
        /\ ~last.threw
        /\ Len(last.scale.intervals) = Len(Template(last.src).intervals)
        /\ Len(last.scale.notes) = Len(last.scale.intervals)

C3_Witness ==
    /\ last.op = "Scale"
    /\ last.src = <<<<"F", "#", "3">>, <<"bebop">>, <<"dominant">>>>
    /\ Len(last.scale.notes) = 8

(***************************************************************************)
(* C4.  A Scale call whose trimmed type name was never registered returns  *)
(* the empty-scale sentinel, for a valid tonic or not: it does not throw,  *)
(* valid is false, the signature is all zero, notes, intervals, name and   *)
(* tonic are empty, and the call leaves the dictionary as it was.          *)
(***************************************************************************)
C4_MissReturnsSentinel ==
    [][ (last'.op = "Scale" /\ ~Registered(last'.src)) =>
            /\ ~last'.threw
            /\ last'.scale.valid = FALSE
            /\ \A p \in 1..12 : last'.scale.pc.chroma[p] = "0"
            /\ last'.scale.pc.pcnum = 0
            /\ last'.scale.notes = <<>>
            /\ last'.scale.intervals = <<>>
            /\ last'.scale.name = <<<<>>>>
            /\ last'.scale.tonic = <<>>
            /\ SCALE_TYPES' = SCALE_TYPES
            /\ SCALES' = SCALES ]_vars

(***************************************************************************)
(* C5.  A Scale call with a registered type name and no valid tonic        *)
(* returns the unrooted scale: tonic empty, no notes, valid, the type's    *)
(* intervals, the type's base signature as built, the canonical type name. *)
(***************************************************************************)
C5_UnrootedScale ==
    (last.op = "Scale" /\ ~HasTonic(last.src) /\ Registered(last.src)) =>
        /\ ~last.threw
        /\ last.scale.tonic = <<>>
        /\ last.scale.notes = <<>>
        /\ last.scale.valid = TRUE
        /\ last.scale.intervals = Template(last.src).intervals
        /\ last.scale.pc = Template(last.src).pc
        /\ last.scale.name = Template(last.src).type

(***************************************************************************)
(* C6.  For a dictionary scale type X, neither extended(X) nor reduced(X)  *)
(* lists X's own name.                                                     *)
(***************************************************************************)
C6_QueryExcludesSelf ==
    (last.op \in {"extended", "reduced"} /\ ~HasTonic(last.src) /\ Registered(last.src)) =>
        \A i \in DOMAIN last.list : last.list[i] # Template(last.src).type

(***************************************************************************)
(* C7.  As stated: toSteps("major") returns the seven symbols              *)
(* W W H W W W H.                                                          *)
(***************************************************************************)
C7_MajorSevenSteps ==
    (last.op = "toSteps" /\ last.src = W("major")) =>
        last.list = <<"W", "W", "H", "W", "W", "W", "H">>

(***************************************************************************)
(* C7, amended.  toSteps("major") returns the six symbols W W H W W W,     *)
(* one per pair of consecutive intervals; the step from 7M back to the     *)
(* octave is not part of the list.                                         *)
(***************************************************************************)
C7_MajorSixSteps ==
    (last.op = "toSteps" /\ last.src = W("major")) =>
        /\ ~last.threw
        /\ last.list = <<"W", "W", "H", "W", "W", "W">>

C7_Witness ==
    /\ last.op = "toSteps"
    /\ last.src = W("major")
    /\ Len(last.list) = 6
    /\ calls > 1

LetterAfter(l) ==
    CASE l = "A" -> "B" [] l = "B" -> "C" [] l = "C" -> "D" [] l = "D" -> "E"
      [] l = "E" -> "F" [] l = "F" -> "G" [] l = "G" -> "A"

C9_LettersAdvance ==
    spell.done =>
        /\ Len(spell.notes) = Len(spell.intervals)
        /\ \A i \in 2..Len(spell.notes) :
             spell.notes[i][1] = LetterAfter(spell.notes[i - 1][1])
        /\ Len(spell.intervals) = 7 =>
             Cardinality({spell.notes[i][1] : i \in DOMAIN spell.notes}) = 7

C9_Witness ==
    /\ spell.done
    /\ spell.tonic = <<"B", "#">>
    /\ Len(spell.intervals) = 7
    /\ spell.notes[2][1] = "C"

(***************************************************************************)
(* C10.  Every spelled note sounds the tonic's pitch plus the semitone     *)
(* width of its interval, the pitch of a name being the pitch of its       *)
(* natural letter at its octave plus one per sharp, two per x, minus one   *)
(* per flat.                                                               *)
(***************************************************************************)
LetterSemitones(l) ==
    CASE l = "C" -> 0 [] l = "D" -> 2 [] l = "E" -> 4 [] l = "F" -> 5
      [] l = "G" -> 7 [] l = "A" -> 9 [] l = "B" -> 11

GlyphShift(g) == IF g = "#" THEN 1 ELSE IF g = "x" THEN 2 ELSE IF g = "b" THEN -1 ELSE 0

RECURSIVE ShiftSum(_)
ShiftSum(glyphs) == IF glyphs = <<>> THEN 0 ELSE GlyphShift(Head(glyphs)) + ShiftSum(Tail(glyphs))

NamePitch(name) ==
    12 * (DigitValue(name[Len(name)]) + 1) + LetterSemitones(name[1])
    + ShiftSum(SubSeq(name, 2, Len(name) - 1))

C10_PitchMatches ==
    spell.done =>
        /\ Len(spell.notes) = Len(spell.intervals)
        /\ \A i \in DOMAIN spell.notes :
             NamePitch(spell.notes[i])
                 = NoteFromName(spell.tonic).midi + Interval(spell.intervals[i]).width

C10_Witness ==
    /\ spell.done
    /\ Len(spell.notes) = 12
    /\ \E i \in DOMAIN spell.notes :
         /\ "x" \in Range(spell.notes[i])
         /\ DigitValue(spell.notes[i][Len(spell.notes[i])]) = 4
    /\ spell.tonic = <<"F", "#", "3">>

(***************************************************************************)
(* C11.  When two templates with different canonical names have the same   *)
(* numeric fingerprint, lookup by that fingerprint and lookup by the       *)
(* shared chroma string return the one that comes first in the source      *)
(* list, and each of the two is still found under its own name.            *)
(***************************************************************************)
C11_FirstInsertedWins ==
    Dictionary.built =>
        \A i, j \in DOMAIN Dictionary.types :
            LET t == Dictionary.types[i]
                u == Dictionary.types[j]
            IN  (i < j /\ t.name # u.name /\ t.setNum = u.setNum
                 /\ \A k \in 1..(i - 1) : Dictionary.types[k].setNum # t.setNum) =>
                    /\ Dictionary.all[NumKey(t.setNum)] = i
                    /\ Dictionary.all[ChromaKey(t.chroma)] = i
                    /\ Dictionary.all[t.name] = i
                    /\ Dictionary.all[u.name] = j

(***************************************************************************)
(* C12.  Every entry of the dictionary is registered under four kinds of   *)
(* key: lookup by its canonical name, by its numeric fingerprint, by its   *)
(* chroma string and by each of its aliases finds an entry, and the entry  *)
(* found has the same pitch-class set.                                     *)
(***************************************************************************)
C12_FourKindsOfKey ==
    \A i \in DOMAIN SCALE_TYPES :
        LET t    == SCALE_TYPES[i]
            keys == {t.type, NumKey(t.pc.pcnum), ChromaKey(t.pc.chroma)} \cup Range(t.aliases)
        IN  \A key \in keys :
                /\ key \in DOMAIN SCALES
                /\ SCALE_TYPES[SCALES[key]].pc = t.pc

(***************************************************************************)
(* C13.  Scale called with tonic C and type major twice in a row returns   *)
(* the same output both times: every field of the second result equals     *)
(* the field of the first.                                                 *)
(***************************************************************************)
C13_CMajorTwice ==
    (last.op = "Scale" /\ last.src = <<<<"C">>, <<"major">>>> /\ prev.op = "Scale") =>
        /\ last.threw = prev.threw
        /\ last.scale = prev.scale

\* the two calls made after another call has re-keyed the entry of major
C13_Witness ==
    /\ last.op = "Scale"
    /\ last.src = <<<<"C">>, <<"major">>>>
    /\ prev.op = "Scale"
    /\ prev.src = last.src
    /\ last.scale.valid
    /\ last.scale.notes[7] = <<"B", "4">>
    /\ last.scale.pc.chroma # InitScaleTypes[3].pc.chroma

(***************************************************************************)
(* C14.  In every signature held by a dictionary entry or returned inside  *)
(* a Scale value, at any point of any call sequence, the fingerprint is    *)
(* the chroma read as a 12-bit binary number and normalized is the chroma  *)
(* rotated to start at its first set bit.                                  *)
(***************************************************************************)
C14_EncodingsConsistent ==
    LET Consistent(pc) ==
            /\ pc.pcnum = ChromaNum(pc.chroma)
            /\ pc.normalized = Normalized(pc.chroma)
    IN  /\ \A i \in DOMAIN SCALE_TYPES : Consistent(SCALE_TYPES[i].pc)
        /\ ~last.threw => Consistent(last.scale.pc)

(***************************************************************************)
(* C15.  The key is irrelevant to extended and reduced: for a registered   *)
(* type T and a valid tonic K, extended("K T") returns the list of names   *)
(* that extended("T") returns, and reduced("K T") the list that            *)
(* reduced("T") returns (T asked of the dictionary the call found).        *)
(***************************************************************************)
C15_KeyIrrelevant ==
    [][ (last'.op \in {"extended", "reduced"} /\ HasTonic(last'.src)
         /\ Registered(last'.src)) =>
            LET T == tokenize(last'.src).stype
            IN  /\ ~last'.threw
                /\ last'.op = "extended" =>
                       last'.list = extended(SCALE_TYPES, SCALES, T).list
                /\ last'.op = "reduced" =>
                       last'.list = reduced(SCALE_TYPES, SCALES, T).list ]_vars

(***************************************************************************)
(* C16.  For a type name that is not in the dictionary, extended and       *)
(* reduced each return the empty list and raise nothing.                   *)
(***************************************************************************)
C16_UnresolvableGivesEmpty ==
    (last.op \in {"extended", "reduced"} /\ ~Registered(last.src)) =>
        /\ ~last.threw
        /\ last.list = <<>>

(***************************************************************************)
(* C17.  modes of a scale with n notes returns at most n pairs.  The pair  *)
(* of degree i is (notes[i], name) for a rooted scale and (intervals[i],   *)
(* name) for an unrooted one, name being the dictionary name of the        *)
(* signature got by rotating the type's shape to begin at degree i (so     *)
(* degree 0 of "K T" gives (K, T)); degrees whose rotation has no          *)
(* dictionary entry are dropped, the others keep ascending degree order.   *)
(***************************************************************************)
\* the shape of the type rotated to begin at degree i (i from 1)
ShapeAtDegree(type, i) == rotate(Interval(type.intervals[i]).width, type.chroma)

C17_ModesPairs ==
    (mode.done /\ ~mode.threw /\ TypeKey(mode.src) \in DOMAIN Dictionary.all) =>
        LET type   == Dictionary.types[Dictionary.all[TypeKey(mode.src)]]
            n      == Len(type.intervals)
            labels == IF HasTonic(mode.src) THEN mode.scale.notes ELSE type.intervals
            named  == {i \in 1..n : ChromaKey(ShapeAtDegree(type, i)) \in DOMAIN Dictionary.all}
            NameAt(i) == Dictionary.types[Dictionary.all[ChromaKey(ShapeAtDegree(type, i))]].name
            Expected[i \in 0..n] ==
                IF i = 0 THEN <<>>
                ELSE IF i \in named THEN Append(Expected[i - 1], <<labels[i], NameAt(i)>>)
                     ELSE Expected[i - 1]
        IN  /\ Len(mode.pairs) <= n
            /\ mode.pairs = Expected[n]

(***************************************************************************)
(* C18.  In each spelling step the octave given to the next natural letter *)
(* is the one that minimizes the absolute pitch distance between that      *)
(* natural note and the target pitch, over all octaves, at every degree of *)
(* every formula, formulas of more than 7 degrees included.                *)
(***************************************************************************)
\* the pitch of the natural (no-accidental) letter l at octave o
NaturalPitch(l, o) == 12 * (o + 1) + LetterSemitones(l)

C18_NearestOctave ==
    spell.done =>
        \A i \in 2..Len(spell.notes) :
            LET note   == spell.notes[i]
                chosen == DigitValue(note[Len(note)])
                target == NoteFromName(spell.tonic).midi + Interval(spell.intervals[i]).width
            IN  \A o \in 0..9 :
                    Abs(target - NaturalPitch(note[1], chosen))
                        <= Abs(target - NaturalPitch(note[1], o))

(***************************************************************************)
(* C19.  For a rooted scale built by the first call after the dictionary   *)
(* was built, position p of the scale's chroma is '1' exactly when         *)
(* p = (tonic pitch class + d) mod 12 for some interval semitone width d   *)
(* of the type; for tonic pitch class 0 (C) the chroma is the type's base  *)
(* chroma unchanged.                                                       *)
(***************************************************************************)
C19_RotatedByTonic ==
    (calls = 1 /\ HasTonic(last.src) /\ Registered(last.src)) =>
        LET tonicPitchClass == NoteFromName(last.src[1]).chroma
            type   == Template(last.src)
            widths == {Interval(type.intervals[i]).width : i \in DOMAIN type.intervals}
        IN  /\ ~last.threw
            /\ \A p \in 0..11 :
                 last.scale.pc.chroma[p + 1] = "1"
                     <=> \E d \in widths : p = (tonicPitchClass + d) % 12
            /\ tonicPitchClass = 0 => last.scale.pc.chroma = type.pc.chroma

C19_Witness ==
    /\ calls = 1
    /\ last.op = "Scale"
    /\ last.src = <<<<"F", "#", "3">>, <<"major">>, <<"pentatonic">>>>
    /\ last.scale.pc.chroma = <<"0", "1", "0", "1", "0", "0", "1", "0", "1", "0", "1", "0">>

(***************************************************************************)
(* C20.  The name of a rooted scale is the tonic's pitch class (the octave *)
(* stripped), one space and the canonical type name; the name of an        *)
(* unrooted scale is the canonical type name alone.  The canonical name is *)
(* used also when the type was asked for by an alias, and whitespace       *)
(* around the type does not change the name.                               *)
(***************************************************************************)
\* a note token without its octave digit
StripOctave(token) ==
    IF IsDigit(token[Len(token)]) THEN SubSeq(token, 1, Len(token) - 1) ELSE token

C20_ScaleName ==
    (last.op # "none" /\ Registered(last.src)) =>
        /\ ~last.threw
        /\ HasTonic(last.src) =>
              last.scale.name = <<StripOctave(last.src[1])>> \o Template(last.src).type
        /\ ~HasTonic(last.src) => last.scale.name = Template(last.src).type

C20_Witness ==
    /\ last.op = "Scale"
    /\ last.src = <<<<"F", "#", "3">>, <<"ionian">>>>
    /\ last.scale.name = <<<<"F", "#">>, <<"major">>>>

(***************************************************************************)
(* C21.  A Scale value already returned is never changed by a later call:  *)
(* for two calls Scale(a) then Scale(b), every field of the first result,  *)
(* its pc.chroma in particular, reads after the second call as it read     *)
(* before it.  (The fields other than pc are values of the result's own;   *)
(* pc is a reference, and what it reads is the object it refers to.)       *)
(***************************************************************************)
\* what the pc field of a returned Scale reads when the dictionary is types
ReadPc(scale, types) == IF scale.pcRef = 0 THEN EmptyPc ELSE types[scale.pcRef].pc

C21_ReturnedScaleUnchanged ==
    [][ (last.op = "Scale" /\ ~last.threw /\ last'.op = "Scale") =>
            ReadPc(last.scale, SCALE_TYPES') = last.scale.pc ]_vars

(***************************************************************************)
(* C22.  For every source list whose canonical names are pairwise          *)
(* different, lookup by a canonical name returns the ScaleType carrying    *)
(* that name: no alias, fingerprint or chroma key of another template of   *)
(* the list replaces the entry stored under a canonical name.  (Stated of  *)
(* the index of dictionary.ts and of the index of the earlier revision.)   *)
(***************************************************************************)
C22_CanonicalNameKept ==
    Dictionary.built =>
        /\ \A i \in DOMAIN SCALE_TYPES :
              /\ SCALE_TYPES[i].type \in DOMAIN SCALES
              /\ SCALE_TYPES[SCALES[SCALE_TYPES[i].type]].type = SCALE_TYPES[i].type
        /\ \A i \in DOMAIN Dictionary.types :
              /\ Dictionary.types[i].name \in DOMAIN Dictionary.all
              /\ Dictionary.types[Dictionary.all[Dictionary.types[i].name]].name
                     = Dictionary.types[i].name

====
